---- MODULE Spec2Model ----
(***************************************************************************)
(* Model of frontend/src/App.tsx (second revision, lines 1216-2736): the   *)
(* view derivation pipeline (search, filters, sort), the debounce hook,    *)
(* the column layout state and the column resize interaction.              *)
(*                                                                         *)
(* Strings are sequences of one-character strings, so that trim,           *)
(* toLowerCase, includes, Number() and Date.parse() are computed and not   *)
(* assumed.  A row is a function from the column names it holds to         *)
(* strings; a column the CSV line did not supply is absent from DOMAIN.    *)
(***************************************************************************)
EXTENDS Integers, Sequences, FiniteSets, TLC

----------------------------------------------------------------------------
(* Strings                                                                 *)

DigitChars == {"0", "1", "2", "3", "4", "5", "6", "7", "8", "9"}

DigitVal(c) ==
  CASE c = "0" -> 0 [] c = "1" -> 1 [] c = "2" -> 2 [] c = "3" -> 3
    [] c = "4" -> 4 [] c = "5" -> 5 [] c = "6" -> 6 [] c = "7" -> 7
    [] c = "8" -> 8 [] c = "9" -> 9

IsSpace(c) == c = " "

\* String.prototype.toLowerCase on the characters the model uses
LowerChar(c) ==
  CASE c = "A" -> "a" [] c = "B" -> "b" [] OTHER -> c

toLowerCase(s) == [i \in 1..Len(s) |-> LowerChar(s[i])]

\* String.prototype.trim
trim(s) ==
  LET keep == {i \in 1..Len(s) : ~IsSpace(s[i])}
  IN  IF keep = {} THEN << >>
      ELSE LET lo == CHOOSE i \in keep : \A j \in keep : i <= j
               hi == CHOOSE i \in keep : \A j \in keep : i >= j
           IN  SubSeq(s, lo, hi)

\* String.prototype.includes
includes(s, t) ==
  \E i \in 0..(Len(s) - Len(t)) : SubSeq(s, i + 1, i + Len(t)) = t

Max(a, b) == IF a >= b THEN a ELSE b

RECURSIVE Pow10(_)
Pow10(n) == IF n = 0 THEN 1 ELSE 10 * Pow10(n - 1)

RECURSIVE DigitsValue(_)
DigitsValue(s) ==
  IF s = << >> THEN 0
  ELSE 10 * DigitsValue(SubSeq(s, 1, Len(s) - 1)) + DigitVal(s[Len(s)])

AllDigits(s) == \A i \in 1..Len(s) : s[i] \in DigitChars

----------------------------------------------------------------------------
(* Number(): a number is [nan, num, scale], standing for num / 10^scale.   *)
(* The grammar is StringNumericLiteral restricted to the characters of the *)
(* model: optional white space, optional "-", digits with at most one ".". *)

NaN == [nan |-> TRUE, num |-> 0, scale |-> 0]

Num(n) == [nan |-> FALSE, num |-> n, scale |-> 0]

\* Number(s) for a string s
NumberOfString(s) ==
  LET \* the digits ip before and fp after the one "."
      Decimal(ip, fp) ==
        IF AllDigits(ip) /\ AllDigits(fp) /\ Len(ip) + Len(fp) > 0
          THEN [nan |-> FALSE, num |-> DigitsValue(ip \o fp), scale |-> Len(fp)]
          ELSE NaN
      \* the unsigned literal body, with the positions dots of its "."
      Unsigned(body, dots) ==
        IF body = << >> \/ Cardinality(dots) > 1 THEN NaN
        ELSE IF dots = {}
          THEN (IF AllDigits(body) THEN Num(DigitsValue(body)) ELSE NaN)
        ELSE Decimal(SubSeq(body, 1, (CHOOSE i \in dots : TRUE) - 1),
                     SubSeq(body, (CHOOSE i \in dots : TRUE) + 1, Len(body)))
      Magnitude(body) == Unsigned(body, {i \in 1..Len(body) : body[i] = "."})
      Negate(x) == IF x.nan THEN NaN ELSE [x EXCEPT !.num = 0 - x.num]
      \* the trimmed string t: "" is 0, a leading "-" negates
      Signed(t) ==
        IF t = << >> THEN Num(0)
        ELSE IF t[1] = "-" THEN Negate(Magnitude(Tail(t)))
        ELSE Magnitude(t)
  IN  Signed(trim(s))

\* Number(row[col]): Number(undefined) is NaN
NumberOfCell(row, col) ==
  IF col \in DOMAIN row THEN NumberOfString(row[col]) ELSE NaN

isNaN(x) == x.nan

\* a < b, a <= b, a === b on numbers; every comparison with NaN is false
NumLt(a, b) ==
  ~a.nan /\ ~b.nan /\ a.num * Pow10(b.scale) < b.num * Pow10(a.scale)
NumEq(a, b) ==
  ~a.nan /\ ~b.nan /\ a.num * Pow10(b.scale) = b.num * Pow10(a.scale)
\* a bound that is not inclusive
NumLe_Strict(a, b) == NumLt(a, b)

NumLe(a, b) == NumLt(a, b) \/ NumEq(a, b)

\* the sign of a - b for two numbers that are not NaN
NumCmp(a, b) == IF NumLt(a, b) THEN -1 ELSE IF NumEq(a, b) THEN 0 ELSE 1

----------------------------------------------------------------------------
(* Date.parse(): the ISO date-only forms YYYY, YYYY-MM and YYYY-MM-DD.     *)
(* The result is a day count that orders as the timestamps do (the code    *)
(* only compares timestamps).  A string without a digit is no date.        *)

DaysInMonth(y, m) ==
  IF m = 2
    THEN (IF (y % 4 = 0 /\ y % 100 # 0) \/ y % 400 = 0 THEN 29 ELSE 28)
    ELSE IF m \in {4, 6, 9, 11} THEN 30 ELSE 31

DateParse(s) ==
  LET \* the fields y, m, d of s as numbers, once their digits are checked
      Days(y, m, d) ==
        IF m \in 1..12 /\ d \in 1..DaysInMonth(y, m)
          THEN Num(y * 372 + (m - 1) * 31 + d - 1)
          ELSE NaN
      \* the fields y, m, d of s as strings; an absent field is "01"
      Fields(y, m, d) ==
        IF AllDigits(y) /\ AllDigits(m) /\ AllDigits(d)
          THEN Days(DigitsValue(y), DigitsValue(m), DigitsValue(d))
          ELSE NaN
  IN  IF Len(s) = 4 THEN Fields(s, <<"0", "1">>, <<"0", "1">>)
      ELSE IF Len(s) = 7 /\ s[5] = "-"
             THEN Fields(SubSeq(s, 1, 4), SubSeq(s, 6, 7), <<"0", "1">>)
      ELSE IF Len(s) = 10 /\ s[5] = "-" /\ s[8] = "-"
             THEN Fields(SubSeq(s, 1, 4), SubSeq(s, 6, 7), SubSeq(s, 9, 10))
      ELSE NaN

\* new Date(row[col]).getTime(): new Date(undefined) is an invalid date
DateOfCell(row, col) ==
  IF col \in DOMAIN row THEN DateParse(row[col]) ELSE NaN

----------------------------------------------------------------------------
(* String.prototype.localeCompare in the default (root) collation: the     *)
(* primary weights order white space, punctuation, currency, digits and    *)
(* letters; strings equal at the primary level are ordered by case, lower  *)
(* case first.                                                             *)

PrimaryWeight(c) ==
  CASE c = " " -> 1 [] c = "-" -> 2 [] c = "," -> 3 [] c = "." -> 4
    [] c = "$" -> 5
    [] c \in DigitChars -> 10 + DigitVal(c)
    [] c \in {"a", "A"} -> 30
    [] c \in {"b", "B"} -> 31

CaseWeight(c) == IF c \in {"A", "B"} THEN 1 ELSE 0

\* lexicographic comparison of two sequences of integers: -1, 0 or 1
RECURSIVE LexCmp(_, _)
LexCmp(u, v) ==
  IF u = << >> /\ v = << >> THEN 0
  ELSE IF u = << >> THEN -1
  ELSE IF v = << >> THEN 1
  ELSE IF u[1] < v[1] THEN -1
  ELSE IF u[1] > v[1] THEN 1
  ELSE LexCmp(Tail(u), Tail(v))

localeCompare(s, t) ==
  LET p == LexCmp([i \in 1..Len(s) |-> PrimaryWeight(s[i])],
                  [i \in 1..Len(t) |-> PrimaryWeight(t[i])])
  IN  IF p # 0 THEN p
      ELSE LexCmp([i \in 1..Len(s) |-> CaseWeight(s[i])],
                  [i \in 1..Len(t) |-> CaseWeight(t[i])])

----------------------------------------------------------------------------
(* Rows and cells                                                          *)

Has(row, col) == col \in DOMAIN row

\* JavaScript truthiness of row[col]: present and not the empty string
Truthy(row, col) == Has(row, col) /\ row[col] # << >>

\* row[col] || ""
OrEmpty(row, col) == IF Truthy(row, col) THEN row[col] ELSE << >>

----------------------------------------------------------------------------
(* guessColumnType                                                         *)

\* an inference that samples the first row, blank or not
guessColumnType_FirstRow(col, rows) ==
  LET OfSample(sample) ==
        IF sample = << >> THEN "string"
        ELSE IF ~isNaN(NumberOfString(sample)) THEN "number"
        ELSE IF ~isNaN(DateParse(sample)) THEN "date"
        ELSE "string"
  IN  IF col = "funding_total" THEN "number"
      ELSE IF rows = << >> THEN "string"
      ELSE OfSample(OrEmpty(rows[1], col))

guessColumnType(col, rows) ==
  LET \* the type of the first cell that is truthy and not blank
      OfSample(sample) ==
        IF ~isNaN(NumberOfString(sample)) THEN "number"
        ELSE IF ~isNaN(DateParse(sample)) THEN "date"
        ELSE "string"
      OfHits(hits) ==
        IF hits = {} THEN "string"
        ELSE OfSample(rows[CHOOSE i \in hits : \A j \in hits : i <= j][col])
  IN  IF col = "funding_total" THEN "number"
      ELSE OfHits({i \in 1..Len(rows) :
                     Truthy(rows[i], col) /\ trim(rows[i][col]) # << >>})

----------------------------------------------------------------------------
(* filteredData: the search stage and the filter stage                     *)

\* val.replace(/[^0-9.-]+/g, "")
\* a cell that is parsed as it stands
StripNonNumeric_Keep(s) == s

StripNonNumeric(s) ==
  SelectSeq(s, LAMBDA c : c \in DigitChars \/ c = "." \/ c = "-")

\* a search callback that looks at the company name alone
SearchMatches_NameOnly(row, lower) ==
  Truthy(row, "name") /\ includes(toLowerCase(row["name"]), lower)

\* the callback of filtered.filter for the search term
SearchMatches(row, lower) ==
  \/ Truthy(row, "name") /\ includes(toLowerCase(row["name"]), lower)
  \/ Truthy(row, "website") /\ includes(toLowerCase(row["website"]), lower)

\* the branch for funding_total
FundingMatches(row, f) ==
  LET cleanVal == IF Truthy(row, f.col) THEN StripNonNumeric(row[f.col])
                                        ELSE <<"0">>
      Test(num, filterVal, filterVal2) ==
        CASE f.type = "equals" -> NumEq(num, filterVal)
          [] f.type = "gt"     -> NumLt(filterVal, num)
          [] f.type = "lt"     -> NumLt(num, filterVal)
          [] f.type = "range"  -> NumLe(filterVal, num) /\ NumLe(num, filterVal2)
          [] OTHER             -> TRUE
  IN  Test(NumberOfString(cleanVal), NumberOfString(f.value),
           IF f.value2 # << >> THEN NumberOfString(f.value2) ELSE Num(0))

NumberMatches(row, f) ==
  LET Test(num, value, value2) ==
        CASE f.type = "equals" -> NumEq(num, value)
          [] f.type = "gt"     -> NumLt(value, num)
          [] f.type = "lt"     -> NumLt(num, value)
          [] f.type = "range"  -> NumLe(value, num) /\ NumLe(num, value2)
          [] OTHER             -> TRUE
  IN  Test(NumberOfCell(row, f.col), NumberOfString(f.value),
           NumberOfString(f.value2))

DateMatches(row, f) ==
  LET Test(d, value, value2) ==
        CASE f.type = "equals" -> NumEq(d, value)
          [] f.type = "before" -> NumLt(d, value)
          [] f.type = "after"  -> NumLt(value, d)
          [] f.type = "range"  -> NumLe(value, d) /\ NumLe(d, value2)
          [] OTHER             -> TRUE
  IN  Test(DateOfCell(row, f.col), DateParse(f.value), DateParse(f.value2))

StringMatches(row, f) ==
  CASE f.type = "contains" ->
         includes(toLowerCase(OrEmpty(row, f.col)), toLowerCase(f.value))
    [] f.type = "equals"   -> OrEmpty(row, f.col) = f.value
    [] OTHER               -> TRUE

\* the callback of filtered.filter for one active filter f
FilterMatches(row, f) ==
  IF f.col = "funding_total" /\ f.colType = "number" THEN FundingMatches(row, f)
  ELSE IF f.col = "website" /\ f.type = "contains"
    THEN Truthy(row, "website")
           /\ includes(toLowerCase(row["website"]), toLowerCase(f.value))
  ELSE IF f.colType = "number" THEN NumberMatches(row, f)
  ELSE IF f.colType = "date" THEN DateMatches(row, f)
  ELSE StringMatches(row, f)

\* a filter stage that applies the first active filter alone
ApplyFilters_FirstOnly(rows, fs) ==
  IF fs = << >> THEN rows
  ELSE SelectSeq(rows, LAMBDA r : FilterMatches(r, fs[1]))

\* activeFilters.forEach(f => filtered = filtered.filter(...))
RECURSIVE ApplyFilters(_, _)
ApplyFilters(rows, fs) ==
  IF fs = << >> THEN rows
  ELSE ApplyFilters(SelectSeq(rows, LAMBDA r : FilterMatches(r, fs[1])),
                    Tail(fs))

SearchStage(rows, term) ==
  IF term # << >>
    THEN SelectSeq(rows, LAMBDA r : SearchMatches(r, toLowerCase(term)))
    ELSE rows
\* filteredData without the early return and with the search callback
\* applied whatever the term
ComputeFilteredData_NoFastPath(rows, term, fs) ==
  ApplyFilters(SelectSeq(rows, LAMBDA r : SearchMatches(r, toLowerCase(term))),
               fs)

ComputeFilteredData(rows, term, fs) ==
  IF term = << >> /\ fs = << >> THEN rows
  ELSE ApplyFilters(SearchStage(rows, term), fs)

----------------------------------------------------------------------------
(* sortedData                                                              *)

\* a comparator that compares every pair as strings
SortCompare_Strings(a, b, col, dir) ==
  IF dir = "asc" THEN localeCompare(OrEmpty(a, col), OrEmpty(b, col))
                 ELSE localeCompare(OrEmpty(b, col), OrEmpty(a, col))

\* the comparator handed to Array.prototype.sort: negative, zero or positive
SortCompare(a, b, col, dir) ==
  LET Compare(aVal, bVal, na, nb) ==
        IF ~isNaN(na) /\ ~isNaN(nb)
          THEN (IF dir = "asc" THEN NumCmp(na, nb) ELSE NumCmp(nb, na))
          ELSE (IF dir = "asc" THEN localeCompare(aVal, bVal)
                               ELSE localeCompare(bVal, aVal))
      OfValues(aVal, bVal) ==
        Compare(aVal, bVal, NumberOfString(aVal), NumberOfString(bVal))
  IN  OfValues(OrEmpty(a, col), OrEmpty(b, col))

\* comparefn is a consistent comparator for the rows (ECMA-262, the
\* conditions of Array.prototype.sort): =CF is reflexive, symmetric and
\* transitive, <CF and >CF are transitive.  <<i, j, v>> is in c when the
\* comparator returns the sign v on rows i and j.
ConsistentComparator(rows, col, dir) ==
  LET Holds(c) ==
        \A i, j, k \in 1..Len(rows) :
          /\ <<i, i, 0>> \in c
          /\ <<i, j, 0>> \in c => <<j, i, 0>> \in c
          /\ (<<i, j, 0>> \in c /\ <<j, k, 0>> \in c) => <<i, k, 0>> \in c
          /\ (<<i, j, -1>> \in c /\ <<j, k, -1>> \in c) => <<i, k, -1>> \in c
          /\ (<<i, j, 1>> \in c /\ <<j, k, 1>> \in c) => <<i, k, 1>> \in c
  IN  Holds({<<i, j, SortCompare(rows[i], rows[j], col, dir)>> :
               i \in 1..Len(rows), j \in 1..Len(rows)})

\* The sorted order under a consistent comparator: Array.prototype.sort is
\* stable (ECMA-262 since ES2019), so the result is the one of a stable
\* insertion sort: each element is put after the elements of the sorted
\* prefix that do not compare greater
RECURSIVE InsertSorted(_, _, _, _)
InsertSorted(sorted, x, col, dir) ==
  IF sorted = << >> THEN <<x>>
  ELSE IF SortCompare(sorted[Len(sorted)], x, col, dir) > 0
    THEN Append(InsertSorted(SubSeq(sorted, 1, Len(sorted) - 1), x, col, dir),
                sorted[Len(sorted)])
    ELSE Append(sorted, x)

RECURSIVE SortRows(_, _, _)
SortRows(rows, col, dir) ==
  IF rows = << >> THEN << >>
  ELSE InsertSorted(SortRows(SubSeq(rows, 1, Len(rows) - 1), col, dir),
                    rows[Len(rows)], col, dir)

\* The values the sortedData callback may return.  With a comparator that
\* is not consistent for the rows the sort order is implementation-defined
\* (ECMA-262): the result is some permutation of the rows.
ComputeSortedData(rows, col, dir) ==
  IF col = "" THEN {rows}
  ELSE IF ConsistentComparator(rows, col, dir) THEN {SortRows(rows, col, dir)}
  ELSE {[i \in 1..Len(rows) |-> rows[p[i]]] : p \in Permutations(1..Len(rows))}

----------------------------------------------------------------------------
(* Column layout                                                           *)

DEFAULT_COL_WIDTH == 180
MIN_COL_WIDTH == 80

Range(seq) == {seq[i] : i \in 1..Len(seq)}

RECURSIVE SumWidths(_, _, _)
SumWidths(columns, customWidths, dflt) ==
  IF columns = << >> THEN 0
  ELSE (IF columns[1] \in DOMAIN customWidths THEN customWidths[columns[1]]
                                              ELSE dflt)
       + SumWidths(Tail(columns), customWidths, dflt)

\* a layout that fits the columns without a custom width to the container
\* whatever the sum of the assigned widths
getColumnWidths_AlwaysFit(columns, containerWidth, customWidths) ==
  LET Fit(without, remainingSpace) ==
        [c \in Range(columns) |->
           IF c \in DOMAIN customWidths THEN customWidths[c]
           ELSE remainingSpace \div Len(without)]
  IN  Fit(SelectSeq(columns, LAMBDA c : c \notin DOMAIN customWidths),
          containerWidth - SumWidths(columns, customWidths, 0))

\* a layout that shares the container among all the columns, resized or not
getColumnWidths_StretchAll(columns, containerWidth, customWidths) ==
  IF SumWidths(columns, customWidths, DEFAULT_COL_WIDTH) < containerWidth
       /\ Len(columns) > 0
    THEN [c \in Range(columns) |-> containerWidth \div Len(columns)]
    ELSE [c \in Range(columns) |->
            IF c \in DOMAIN customWidths THEN customWidths[c]
                                         ELSE DEFAULT_COL_WIDTH]

\* customWidths holds widths >= MIN_COL_WIDTH only, so customWidths[col] is
\* truthy exactly when col has an entry
getColumnWidths(columns, containerWidth, customWidths) ==
  LET base == [c \in Range(columns) |->
                 IF c \in DOMAIN customWidths THEN customWidths[c]
                                              ELSE DEFAULT_COL_WIDTH]
      calculatedWidth == SumWidths(columns, customWidths, DEFAULT_COL_WIDTH)
      without == SelectSeq(columns, LAMBDA c : c \notin DOMAIN customWidths)
      remainingSpace == containerWidth - SumWidths(columns, customWidths, 0)
      extraWidth == remainingSpace \div Len(without)
  IN  IF calculatedWidth < containerWidth /\ Len(columns) > 0 /\ Len(without) > 0
        THEN [c \in Range(columns) |->
                IF c \in DOMAIN customWidths THEN base[c] ELSE extraWidth]
        ELSE base

\* columnOrder.filter(col => visibleColumns.includes(col))
DisplayedColumns(order, visible) ==
  SelectSeq(order, LAMBDA c : c \in Range(visible))
\* handleMove without the Math.max
NewWidth_Unclamped(currentWidth, startX, clientX) ==
  currentWidth + (clientX - startX)

\* Math.max(currentWidth + (moveEvent.clientX - startX), MIN_COL_WIDTH)
NewWidth(currentWidth, startX, clientX) ==
  Max(currentWidth + (clientX - startX), MIN_COL_WIDTH)

\* the options of the Type select for a column type
TypeOptions(colType) ==
  CASE colType = "number" -> {"equals", "gt", "lt", "range"}
    [] colType = "date"   -> {"equals", "before", "after", "range"}
    [] OTHER              -> {"contains", "equals"}

----------------------------------------------------------------------------
(* Inputs and bounds                                                       *)

\* most active filters at a time
MaxFilters == 2
\* most resize sessions whose listeners are registered at a time
MaxSessions == 2
\* widest column a drag may produce
MaxWidth == 500
\* most active filters at a time where single predicates are examined
MaxPredicates == 1

Sites ==
  [fields |-> <<"name", "website">>,
   rows   |-> << [name |-> <<"A", "b">>, website |-> <<"b">>],
                 [name |-> << >>, website |-> <<"a">>],
                 [name |-> <<"b">>],
                 [name |-> << >>, website |-> << >>] >>]

Companies ==
  [fields |-> <<"name", "website", "funding_total">>,
   rows   |-> << [name |-> <<"A", "b">>, website |-> <<"b">>,
                  funding_total |-> <<"$", "2", "0">>],
                 [name |-> << >>, website |-> <<"a">>,
                  funding_total |-> <<"1">>],
                 [name |-> <<"b">>],
                 [name |-> << >>, website |-> << >>,
                  funding_total |-> << >>] >>]

Founders ==
  [fields |-> <<"name", "founded">>,
   rows   |-> << [name |-> <<"a", " ">>,
                  founded |-> <<"2", "0", "0", "1", "-", "0", "2">>],
                 [name |-> <<"A">>, founded |-> <<"2", "0", "0", "0">>] >>]

\* what Papa.parse may hand to its complete callback
Datasets == {Sites, Companies, Founders}

\* the currency-formatted column of the override; the last row is a line
\* with too few fields
Amounts ==
  [fields |-> <<"name", "funding_total">>,
   rows   |-> << [name |-> <<"a">>,
                  funding_total |-> <<"$", "1", ",", "2", "0", "0">>],
                 [name |-> <<"b">>, funding_total |-> <<"$", "3", "0", "0">>],
                 [name |-> <<"a", "a">>, funding_total |-> <<"a", "b", "c">>],
                 [name |-> <<"a", "b">>, funding_total |-> <<"5", "0", "0">>],
                 [name |-> <<"b", "a">>,
                  funding_total |-> <<"2", ",", "0", "0", "0">>],
                 [name |-> <<"b", "b">>,
                  funding_total |-> <<"$", "2", "0", "0", "1">>],
                 [name |-> <<"a", "a", "a">>, funding_total |-> << >>],
                 [name |-> <<"a", "a", "b">>] >>]

\* a column of plain numbers, with an empty cell and a missing cell
Counts ==
  [fields |-> <<"name", "n">>,
   rows   |-> << [name |-> <<"a">>, n |-> <<"1", "2", "0", "0">>],
                 [name |-> <<"b">>, n |-> <<"4", "9", "9">>],
                 [name |-> <<"a", "a">>, n |-> <<"5", "0", "0">>],
                 [name |-> <<"a", "b">>, n |-> <<"2", "0", "0", "0">>],
                 [name |-> <<"b", "a">>, n |-> <<"2", "0", "0", "1">>],
                 [name |-> <<"b", "b">>, n |-> << >>],
                 [name |-> <<"a", "a", "a">>] >>]

\* a column of dates, with an empty cell and a missing cell
Events ==
  [fields |-> <<"name", "founded">>,
   rows   |-> << [name |-> <<"a">>,
                  founded |-> <<"2", "0", "0", "1", "-", "0", "1", "-", "0", "1">>],
                 [name |-> <<"b">>, founded |-> <<"2", "0", "0", "0">>],
                 [name |-> <<"a", "a">>, founded |-> << >>],
                 [name |-> <<"a", "b">>] >>]

\* a column of text and the website column, each with an empty cell and a
\* missing cell
Links ==
  [fields |-> <<"name", "website", "note">>,
   rows   |-> << [name |-> <<"a">>, website |-> <<"A">>, note |-> <<"a">>],
                 [name |-> <<"b">>, website |-> <<"b">>, note |-> <<"b">>],
                 [name |-> <<"a", "a">>, website |-> << >>, note |-> << >>],
                 [name |-> <<"a", "b">>] >>]

\* names and websites in both cases, rows in which only the note holds the
\* letters, and a line with the name alone
Directory ==
  [fields |-> <<"name", "website", "note">>,
   rows   |-> << [name |-> <<"A", "b">>, website |-> <<"c">>, note |-> <<"c">>],
                 [name |-> <<"c">>, website |-> <<"a", "B">>, note |-> <<"c">>],
                 [name |-> <<"c">>, website |-> <<"c">>, note |-> <<"a", "b">>],
                 [name |-> << >>, website |-> << >>, note |-> <<"a", "b">>],
                 [name |-> <<"b">>] >>]

\* a table of five columns
Wide ==
  [fields |-> <<"name", "website", "city", "stage", "note">>,
   rows   |-> << [name |-> <<"a">>, website |-> <<"b">>, city |-> <<"a">>,
                  stage |-> <<"b">>, note |-> <<"a">>] >>]

\* the parse result of a text whose last line opens a quoted field that is
\* never closed: the rows read so far, and the error in results.errors
Truncated ==
  [fields |-> <<"name", "website">>,
   rows   |-> << [name |-> <<"A", "b">>, website |-> <<"b">>],
                 [name |-> <<"a">>] >>,
   errors |-> {"MissingQuotes"}]

\* tables of one row with two cells, among them cells with a comma, a double
\* quote, a line break and a backslash, as a well-formed source text
\* delivers them in quoted fields
ExportDatasets ==
  LET Tables(values) ==
        {[fields |-> <<"name", "website">>,
          rows   |-> << [name |-> n, website |-> w] >>] :
           n \in values, w \in values}
  IN  Tables({<<"a">>, << >>, <<"a", ",", "b">>, <<"a", "\"", "b">>,
              <<"a", "\n", "b">>, <<"\\">>})

\* columns whose first cells are empty or blank: year has a number first
\* (which is a date as well), since a date, code a word and then a number,
\* pad a number between spaces, rest nothing but empty, blank and missing
\* cells
Typed ==
  [fields |-> <<"name", "year", "since", "code", "pad", "rest">>,
   rows   |-> << [name |-> <<"a">>, year |-> << >>, since |-> << >>,
                  code |-> << >>, pad |-> <<" ">>, rest |-> << >>],
                 [name |-> <<"b">>, year |-> <<" ">>, since |-> <<" ">>,
                  code |-> <<"a", "b">>, pad |-> <<" ", "5", " ">>,
                  rest |-> <<" ">>],
                 [name |-> <<"a", "a">>, year |-> <<"2", "0", "0", "0">>,
                  since |-> <<"2", "0", "0", "1", "-", "0", "1", "-", "0", "1">>,
                  code |-> <<"5">>, pad |-> <<"a">>],
                 [name |-> <<"a", "b">>, year |-> <<"a">>, since |-> <<"5">>,
                  code |-> <<"5">>] >>]

\* the tables on which single predicates are examined
FilterDatasets == {Amounts, Counts, Events, Links, Typed}

\* cells of a column that holds numbers and text: 9 < 10 as numbers, and
\* "10" < "1a" < "9" as strings
SortValues == {<<"9">>, <<"1", "0">>, <<"1", "a">>}

\* tables of three and of four rows with a row number and a column v of
\* SortValues; and a table whose column v starts with a word, so that it is
\* inferred to be a string column, and holds numbers, an empty cell and a
\* missing cell
SortDatasets ==
  {[fields |-> <<"id", "v">>,
    rows   |-> [i \in DOMAIN vals |->
                  [id |-> <<(<<"1", "2", "3", "4">>)[i]>>, v |-> vals[i]]]] :
     vals \in [1..3 -> SortValues] \cup [1..4 -> SortValues]}
  \cup
  {[fields |-> <<"id", "v">>,
    rows   |-> << [id |-> <<"1">>, v |-> <<"a">>],
                  [id |-> <<"2">>, v |-> <<"1", "0">>],
                  [id |-> <<"3">>, v |-> << >>],
                  [id |-> <<"4">>, v |-> <<"9">>],
                  [id |-> <<"5">>, v |-> <<"-", "1">>],
                  [id |-> <<"6">>] >>]}

\* values typed into the global search box
SearchInputs == {<< >>, <<"a">>, <<"a", " ">>}

\* values typed into the global search box where the search stage is
\* examined: white space alone, an upper-case letter, a padded term
FindInputs == {<< >>, <<" ">>, <<"B">>, <<" ", "a", "b">>}

\* values the inputs of the filter modal deliver
FilterTextInputs == {<<"a">>}
FilterNumberInputs == {<<"5", "0", "0">>, <<"2", "0", "0", "0">>}
FilterDateInputs == {<<"2", "0", "0", "1", "-", "0", "1", "-", "0", "1">>}

\* clientX of the mouse events
PointerXs == {0, 200}

\* window.innerWidth: at mount, and after a resize of the window
InitialWindowWidth == 500
WindowWidths == {500, 1000}

\* window.innerWidth where the layout of five columns is examined: room for
\* two and for three columns of the default width, and for more than five
LayoutWindowWidths == {500, 700, 1100}

\* the columns whose resize handle is dragged there
LayoutHandles == {"name", "website"}

null == "<null>"

----------------------------------------------------------------------------
(* State                                                                   *)

VARIABLES
  mounted,            \* the App component is mounted
  fetchPending,       \* the fetch of the load effect has not settled
  data, headers, loading,
  search,             \* useState: the raw value of the search box
  debouncedValue,     \* useDebounce(search, 600): the settled value
  timers,             \* the values captured by the pending setTimeout callbacks
                      \* of useDebounce
  orderBy, order,
  visibleColumns, columnOrder,
  columnSelectSearch, \* useState: the raw value of the column search box
  debouncedColumnSelectSearch,  \* useDebounce(columnSelectSearch, 150)
  windowWidth,
  customColumnWidths, resizingColumn, resizeStartX, initialWidth, isResizing,
  listeners,          \* the (handleMove, handleUp) pairs on document, oldest first
  bodyCursor, bodyUserSelect, bodyClassResizing,
  filterModalOpen, filterCol, filterType, filterValue, filterValue2,
  activeFilters,
  filteredData, sortedData,     \* useMemo: the memoized values
  filterRan,          \* the last render ran the filteredData callback
  lastOp              \* the handler that ran last

dataVars   == <<fetchPending, data, headers, loading>>
searchVars == <<search, debouncedValue, timers>>
sortVars   == <<orderBy, order>>
layoutVars == <<visibleColumns, columnOrder, columnSelectSearch,
                debouncedColumnSelectSearch>>
resizeVars == <<customColumnWidths, resizingColumn, resizeStartX, initialWidth,
                isResizing, listeners, bodyCursor, bodyUserSelect,
                bodyClassResizing>>
modalVars  == <<filterModalOpen, filterCol, filterType, filterValue,
                filterValue2>>
memoVars   == <<filteredData, sortedData, filterRan>>

vars == <<mounted, dataVars, searchVars, sortVars, layoutVars, windowWidth,
          resizeVars, modalVars, activeFilters, memoVars, lastOp>>

----------------------------------------------------------------------------
(* Derived values of a render                                              *)
\* the raw settled value as the search term
TrimmedSearch_Raw(debounced) == debounced

\* useMemo(() => debouncedSearch.trim(), [debouncedSearch])
TrimmedSearch(debounced) == trim(debounced)
\* a dependency list that misses activeFilters
FilteredDeps_NoFilters(d, term, fs) == <<d, term>>

\* the dependency list of the filteredData memo
FilteredDeps(d, term, fs) == <<d, term, fs>>

\* the dependency list of the sortedData memo
SortedDeps(fd, col, dir) == <<fd, col, dir>>

displayedColumns == DisplayedColumns(columnOrder, visibleColumns)

columnWidths ==
  getColumnWidths(displayedColumns, windowWidth - 80, customColumnWidths)

\* The render that follows a state update: each useMemo runs its callback
\* when its dependency list differs from the one of the previous render.
\* Every state update is followed by a render, so the dependency lists of
\* the previous render are those of the state before the update.
\* Dependencies are compared by value; an array dependency of the code is
\* replaced by a new array exactly when its content changes (every
\* setActiveFilters changes the length, setData runs once), and a memo that
\* reruns on equal input returns an equal value.
\* d, settled, fs, col and dir are the values of data, debouncedValue,
\* activeFilters, orderBy and order that the render sees.
Render(d, settled, fs, col, dir) ==
  LET \* the sortedData memo, given the filteredData fd of this render
      Sorted(fd) ==
        /\ filteredData' = fd
        /\ sortedData' \in IF SortedDeps(fd, col, dir)
                                # SortedDeps(filteredData, orderBy, order)
                             THEN ComputeSortedData(fd, col, dir)
                             ELSE {sortedData}
      \* the filteredData memo, given the search term of this render and
      \* whether its dependency list changed
      Filtered(term, fchanged) ==
        /\ filterRan' = fchanged
        /\ Sorted(IF fchanged THEN ComputeFilteredData(d, term, fs)
                              ELSE filteredData)
      WithTerm(term) ==
        Filtered(term, FilteredDeps(d, term, fs)
                         # FilteredDeps(data, TrimmedSearch(debouncedValue),
                                        activeFilters))
  IN  WithTerm(TrimmedSearch(settled))

RenderSame == Render(data, debouncedValue, activeFilters, orderBy, order)

----------------------------------------------------------------------------
(* Initial state: the component has been constructed and its mount effects *)
(* have run (fetch sent, debounce timer armed with the initial value)      *)

Init ==
  /\ mounted = TRUE
  /\ fetchPending = TRUE
  /\ data = << >> /\ headers = << >> /\ loading = TRUE
  /\ search = << >> /\ debouncedValue = << >>
  /\ timers = {<< >>}
  /\ orderBy = "" /\ order = "asc"
  /\ visibleColumns = << >> /\ columnOrder = << >>
  /\ columnSelectSearch = << >> /\ debouncedColumnSelectSearch = << >>
  /\ windowWidth = InitialWindowWidth
  /\ customColumnWidths = [c \in {} |-> 0]
  /\ resizingColumn = null /\ resizeStartX = 0 /\ initialWidth = 0
  /\ isResizing = FALSE
  /\ listeners = << >>
  /\ bodyCursor = "" /\ bodyUserSelect = "" /\ bodyClassResizing = FALSE
  /\ filterModalOpen = FALSE
  /\ filterCol = "" /\ filterType = "" /\ filterValue = << >>
  /\ filterValue2 = << >>
  /\ activeFilters = << >>
  /\ filteredData = << >>
  /\ sortedData = << >>
  /\ filterRan = TRUE
  /\ lastOp = "mount"

----------------------------------------------------------------------------
(* Load effect                                                             *)

\* Papa.parse complete callback; Papa.parse does not throw on malformed
\* input, it calls complete with the rows it could read and the errors it
\* met in results.errors, which the callback does not read
LoadComplete(d) ==
  /\ mounted /\ fetchPending
  /\ fetchPending' = FALSE
  /\ data' = d.rows
  /\ headers' = d.fields
  /\ visibleColumns' = d.fields
  /\ columnOrder' = d.fields
  /\ loading' = FALSE
  /\ lastOp' = IF "errors" \in DOMAIN d THEN "loadComplete/errors"
                                        ELSE "loadComplete"
  /\ UNCHANGED <<mounted, searchVars, sortVars, columnSelectSearch,
                 debouncedColumnSelectSearch, windowWidth, resizeVars,
                 modalVars, activeFilters>>
  /\ Render(d.rows, debouncedValue, activeFilters, orderBy, order)

\* the catch of the fetch chain
LoadFail ==
  /\ mounted /\ fetchPending
  /\ fetchPending' = FALSE
  /\ loading' = FALSE
  /\ lastOp' = "loadFail"
  /\ UNCHANGED <<mounted, data, headers, searchVars, sortVars, layoutVars,
                 windowWidth, resizeVars, modalVars, activeFilters>>
  /\ RenderSame

----------------------------------------------------------------------------
(* Search box and useDebounce                                              *)
\* an effect without the cleanup that clears the previous timeout
TimersAfterChange_NoCleanup(pending, value) == pending \cup {value}

\* an effect that misses value in its dependency list and is not rerun
TimersAfterChange_NoRearm(pending, value) == pending

\* The effect of useDebounce after value changed: the cleanup of the
\* previous effect clears its timeout, then setTimeout captures the value
TimersAfterChange(pending, value) == {value}

\* handleSearchChange and the effects of the render it causes
handleSearchChange(v) ==
  /\ mounted
  /\ v # search
  /\ search' = v
  /\ timers' = TimersAfterChange(timers, v)
  /\ lastOp' = IF timers # {} THEN "handleSearchChange/clearTimeout"
                              ELSE "handleSearchChange"
  /\ UNCHANGED <<mounted, dataVars, debouncedValue, sortVars, layoutVars,
                 windowWidth, resizeVars, modalVars, activeFilters>>
  /\ RenderSame

\* the setTimeout callback of useDebounce that captured value:
\* setDebouncedValue(value), and the timeout is no longer pending
TimeoutCallback(value) ==
  /\ value \in timers
  /\ debouncedValue' = value
  /\ timers' = timers \ {value}

\* a timeout fires and the component renders
TimerCallback(value) ==
  /\ mounted
  /\ TimeoutCallback(value)
  /\ lastOp' = "timerFire"
  /\ UNCHANGED <<mounted, dataVars, search, sortVars, layoutVars, windowWidth,
                 resizeVars, modalVars, activeFilters>>
  /\ Render(data, value, activeFilters, orderBy, order)

TimerFire == \E value \in SearchInputs : TimerCallback(value)

----------------------------------------------------------------------------
(* Sorting                                                                 *)

\* a handleSort that keeps the direction when the column changes
handleSort_KeepsDirection(column) ==
  IF orderBy = column
    THEN <<orderBy, IF order = "asc" THEN "desc" ELSE "asc">>
    ELSE <<column, order>>

\* handleSort: the sort column and direction it sets
handleSort(column) ==
  IF orderBy = column
    THEN <<orderBy, IF order = "asc" THEN "desc" ELSE "asc">>
    ELSE <<column, "asc">>

\* an onClick without the isResizing guard
ClickSorts_Always(resizing) == TRUE

\* a click may sort: onClick={() => !isResizing && handleSort(header)}
ClickSorts(resizing) == ~resizing

\* the onClick of a header cell
HeaderClick(column) ==
  /\ mounted
  /\ column \in Range(displayedColumns)
  /\ LET sort == IF ClickSorts(isResizing) THEN handleSort(column)
                                           ELSE <<orderBy, order>>
     IN  /\ orderBy' = sort[1]
         /\ order' = sort[2]
         /\ Render(data, debouncedValue, activeFilters, sort[1], sort[2])
  /\ lastOp' = "headerClick"
  /\ UNCHANGED <<mounted, dataVars, searchVars, layoutVars, windowWidth,
                 resizeVars, modalVars, activeFilters>>

----------------------------------------------------------------------------
(* Column picker                                                           *)

\* a toggle that drops the sort when it hides the sort column
handleToggleColumn_ClearsSort(col) ==
  /\ mounted
  /\ col \in Range(columnOrder)
  /\ visibleColumns' = IF col \in Range(visibleColumns)
                         THEN SelectSeq(visibleColumns, LAMBDA c : c # col)
                         ELSE Append(visibleColumns, col)
  /\ orderBy' = IF col = orderBy THEN "" ELSE orderBy
  /\ lastOp' = "handleToggleColumn"
  /\ UNCHANGED <<mounted, dataVars, searchVars, order, columnOrder,
                 columnSelectSearch, debouncedColumnSelectSearch,
                 windowWidth, resizeVars, modalVars, activeFilters>>
  /\ Render(data, debouncedValue, activeFilters,
            IF col = orderBy THEN "" ELSE orderBy, order)

handleToggleColumn(col) ==
  /\ mounted
  /\ col \in Range(columnOrder)
  /\ visibleColumns' = IF col \in Range(visibleColumns)
                         THEN SelectSeq(visibleColumns, LAMBDA c : c # col)
                         ELSE Append(visibleColumns, col)
  /\ lastOp' = "handleToggleColumn"
  /\ UNCHANGED <<mounted, dataVars, searchVars, sortVars, columnOrder,
                 columnSelectSearch, debouncedColumnSelectSearch,
                 windowWidth, resizeVars, modalVars, activeFilters>>
  /\ RenderSame

SelectAll ==
  /\ mounted
  /\ visibleColumns' = columnOrder
  /\ lastOp' = "selectAll"
  /\ UNCHANGED <<mounted, dataVars, searchVars, sortVars, columnOrder,
                 columnSelectSearch, debouncedColumnSelectSearch,
                 windowWidth, resizeVars, modalVars, activeFilters>>
  /\ RenderSame

DeselectAll ==
  /\ mounted
  /\ visibleColumns' = << >>
  /\ lastOp' = "deselectAll"
  /\ UNCHANGED <<mounted, dataVars, searchVars, sortVars, columnOrder,
                 columnSelectSearch, debouncedColumnSelectSearch,
                 windowWidth, resizeVars, modalVars, activeFilters>>
  /\ RenderSame
\* an onDragEnd that inserts the dragged column without removing it
Reorder_NoRemove(ord, from, to) ==
  SubSeq(ord, 1, to) \o <<ord[from + 1]>> \o SubSeq(ord, to + 1, Len(ord))

\* newOrder.splice(from, 1) then newOrder.splice(to, 0, removed), 0-based
Reorder(ord, from, to) ==
  LET removed == ord[from + 1]
      rest    == SubSeq(ord, 1, from) \o SubSeq(ord, from + 2, Len(ord))
  IN  SubSeq(rest, 1, to) \o <<removed>> \o SubSeq(rest, to + 1, Len(rest))

\* the letters of the column names, for the column search box
ColumnLetters ==
  [name    |-> <<"n", "a", "m", "e">>,
   website |-> <<"w", "e", "b", "s", "i", "t", "e">>,
   note    |-> <<"n", "o", "t", "e">>]

\* the columns the picker lists: columnOrder.filter(col =>
\* col.toLowerCase().includes(trimmedColumnSelectSearch.toLowerCase()));
\* a dataset whose column names have no letters here is listed whole when
\* the box is empty
filteredColumns ==
  LET term == toLowerCase(trim(debouncedColumnSelectSearch))
      Shows(col) ==
        IF col \in DOMAIN ColumnLetters
          THEN includes(toLowerCase(ColumnLetters[col]), term)
          ELSE term = << >>
  IN  SelectSeq(columnOrder, Shows)

\* onChange of the column search box
handleColumnSearchChange(value) ==
  /\ mounted
  /\ value # columnSelectSearch
  /\ columnSelectSearch' = value
  /\ lastOp' = "handleColumnSearchChange"
  /\ UNCHANGED <<mounted, dataVars, searchVars, sortVars, visibleColumns,
                 columnOrder, debouncedColumnSelectSearch, windowWidth,
                 resizeVars, modalVars, activeFilters>>
  /\ RenderSame

\* the timer of useDebounce(columnSelectSearch, 150) fires; every change of
\* the box clears the timer of the change before it
ColumnSearchTimer ==
  /\ mounted
  /\ debouncedColumnSelectSearch # columnSelectSearch
  /\ debouncedColumnSelectSearch' = columnSelectSearch
  /\ lastOp' = "columnSearchTimer"
  /\ UNCHANGED <<mounted, dataVars, searchVars, sortVars, visibleColumns,
                 columnOrder, columnSelectSearch, windowWidth, resizeVars,
                 modalVars, activeFilters>>
  /\ RenderSame

\* from and to are result.source.index and result.destination.index: the
\* index prop of a Draggable is its position in the list the picker shows,
\* and the two splices run on the whole column order
onDragEnd(from, to) ==
  /\ mounted
  /\ from \in 0..(Len(filteredColumns) - 1)
  /\ to \in 0..(Len(filteredColumns) - 1)
  /\ columnOrder' = Reorder(columnOrder, from, to)
  /\ lastOp' = "onDragEnd"
  /\ UNCHANGED <<mounted, dataVars, searchVars, sortVars, visibleColumns,
                 columnSelectSearch, debouncedColumnSelectSearch,
                 windowWidth, resizeVars, modalVars, activeFilters>>
  /\ RenderSame

\* the resize listener of window
WindowResize(w) ==
  /\ mounted
  /\ w # windowWidth
  /\ windowWidth' = w
  /\ lastOp' = "windowResize"
  /\ UNCHANGED <<mounted, dataVars, searchVars, sortVars, layoutVars,
                 resizeVars, modalVars, activeFilters>>
  /\ RenderSame

----------------------------------------------------------------------------
(* Column resize                                                           *)

\* setCustomColumnWidths(prev => ({...prev, [column]: newWidth}))
SetWidth(widths, column, w) ==
  [c \in DOMAIN widths \cup {column} |-> IF c = column THEN w ELSE widths[c]]

\* every registered handleMove runs, oldest first, on one mousemove
RECURSIVE RunMoves(_, _, _)
RunMoves(sessions, widths, clientX) ==
  IF sessions = << >> THEN widths
  ELSE RunMoves(Tail(sessions),
                SetWidth(widths, sessions[1].column,
                         NewWidth(sessions[1].currentWidth,
                                  sessions[1].startX, clientX)),
                clientX)

\* onMouseDown of a resize handle
handleResizeStart(column, clientX) ==
  /\ mounted
  /\ column \in Range(displayedColumns)
  /\ resizingColumn' = column
  /\ resizeStartX' = clientX
  /\ initialWidth' = columnWidths[column]
  /\ isResizing' = TRUE
  /\ bodyCursor' = "col-resize"
  /\ bodyUserSelect' = "none"
  /\ bodyClassResizing' = TRUE
  /\ listeners' = Append(listeners,
                         [column |-> column, startX |-> clientX,
                          currentWidth |-> columnWidths[column]])
  /\ lastOp' = "handleResizeStart"
  /\ UNCHANGED <<mounted, dataVars, searchVars, sortVars, layoutVars,
                 windowWidth, customColumnWidths, modalVars, activeFilters>>
  /\ RenderSame

\* mousemove on document: the handleMove of every registered session runs;
\* a state setter of an unmounted component changes nothing
handleMove(clientX) ==
  /\ listeners # << >>
  /\ LET widths == RunMoves(listeners, customColumnWidths, clientX)
     IN  customColumnWidths' = IF mounted THEN widths
                                            ELSE customColumnWidths
  /\ lastOp' = "handleMove"
  /\ UNCHANGED <<mounted, dataVars, searchVars, sortVars, layoutVars,
                 windowWidth, resizingColumn, resizeStartX, initialWidth,
                 isResizing, listeners, bodyCursor, bodyUserSelect,
                 bodyClassResizing, modalVars, activeFilters>>
  /\ RenderSame
\* a handleUp that leaves its listeners on document
ListenersAfterUp_Kept(sessions) == sessions

\* the listeners handleUp removes from document
ListenersAfterUp(sessions) == << >>

\* mouseup on document: the handleUp of every registered session runs
handleUp ==
  /\ listeners # << >>
  /\ resizingColumn' = IF mounted THEN null ELSE resizingColumn
  /\ isResizing' = IF mounted THEN FALSE ELSE isResizing
  /\ bodyCursor' = ""
  /\ bodyUserSelect' = ""
  /\ bodyClassResizing' = IF mounted THEN FALSE ELSE bodyClassResizing
  /\ listeners' = ListenersAfterUp(listeners)
  /\ lastOp' = "handleUp"
  /\ UNCHANGED <<mounted, dataVars, searchVars, sortVars, layoutVars,
                 windowWidth, customColumnWidths, resizeStartX, initialWidth,
                 modalVars, activeFilters>>
  /\ RenderSame

\* the listeners on document that the cleanup functions of the effects remove
ListenersAfterUnmount(sessions) == sessions

\* Unmount: the cleanup of every effect runs (clearTimeout of useDebounce,
\* the body styling cleanup, the "resizing" class cleanup)
Unmount ==
  /\ mounted
  /\ mounted' = FALSE
  /\ timers' = {}
  /\ bodyCursor' = ""
  /\ bodyUserSelect' = ""
  /\ bodyClassResizing' = FALSE
  /\ listeners' = ListenersAfterUnmount(listeners)
  /\ lastOp' = "unmount"
  /\ UNCHANGED <<dataVars, search, debouncedValue, sortVars, layoutVars,
                 windowWidth, customColumnWidths, resizingColumn, resizeStartX,
                 initialWidth, isResizing, modalVars, activeFilters, memoVars>>

----------------------------------------------------------------------------
(* Filter modal                                                            *)

handleOpenFilter ==
  /\ mounted /\ ~filterModalOpen
  /\ filterModalOpen' = TRUE
  /\ lastOp' = "editModal"
  /\ UNCHANGED <<mounted, dataVars, searchVars, sortVars, layoutVars,
                 windowWidth, resizeVars, filterCol, filterType, filterValue,
                 filterValue2, activeFilters>>
  /\ RenderSame

handleCloseFilter ==
  /\ mounted /\ filterModalOpen
  /\ filterModalOpen' = FALSE
  /\ filterCol' = "" /\ filterType' = ""
  /\ filterValue' = << >> /\ filterValue2' = << >>
  /\ lastOp' = "editModal"
  /\ UNCHANGED <<mounted, dataVars, searchVars, sortVars, layoutVars,
                 windowWidth, resizeVars, activeFilters>>
  /\ RenderSame

\* onChange of the Column select
SelectFilterCol(col) ==
  /\ mounted /\ filterModalOpen
  /\ col \in Range(displayedColumns)
  /\ col # filterCol
  /\ filterCol' = col /\ filterType' = ""
  /\ filterValue' = << >> /\ filterValue2' = << >>
  /\ lastOp' = "editModal"
  /\ UNCHANGED <<mounted, dataVars, searchVars, sortVars, layoutVars,
                 windowWidth, resizeVars, filterModalOpen, activeFilters>>
  /\ RenderSame

\* onChange of the Type select
SelectFilterType(type) ==
  /\ mounted /\ filterModalOpen
  /\ filterCol # ""
  /\ type \in TypeOptions(guessColumnType(filterCol, data))
  /\ type # filterType
  /\ filterType' = type
  /\ filterValue' = << >> /\ filterValue2' = << >>
  /\ lastOp' = "editModal"
  /\ UNCHANGED <<mounted, dataVars, searchVars, sortVars, layoutVars,
                 windowWidth, resizeVars, filterModalOpen, filterCol,
                 activeFilters>>
  /\ RenderSame

\* what the value input rendered for a column type can deliver
ValueInputs(colType) ==
  (CASE colType = "number" -> FilterNumberInputs
     [] colType = "date"   -> FilterDateInputs
     [] OTHER              -> FilterTextInputs) \cup {<< >>}

\* the value input rendered for the modal state: the Min/From field of a
\* range, or the single Value field; a range on a string column renders none
HasValueInput(colType, type) == type # "range" \/ colType \in {"number", "date"}

\* onChange of the first value input
EditFilterValue(v) ==
  /\ mounted /\ filterModalOpen
  /\ filterCol # ""
  /\ HasValueInput(guessColumnType(filterCol, data), filterType)
  /\ v \in ValueInputs(guessColumnType(filterCol, data))
  /\ v # filterValue
  /\ filterValue' = v
  /\ lastOp' = "editModal"
  /\ UNCHANGED <<mounted, dataVars, searchVars, sortVars, layoutVars,
                 windowWidth, resizeVars, filterModalOpen, filterCol,
                 filterType, filterValue2, activeFilters>>
  /\ RenderSame

\* onChange of the Max/To input, rendered for a range only
EditFilterValue2(v) ==
  /\ mounted /\ filterModalOpen
  /\ filterCol # "" /\ filterType = "range"
  /\ guessColumnType(filterCol, data) \in {"number", "date"}
  /\ v \in ValueInputs(guessColumnType(filterCol, data))
  /\ v # filterValue2
  /\ filterValue2' = v
  /\ lastOp' = "editModal"
  /\ UNCHANGED <<mounted, dataVars, searchVars, sortVars, layoutVars,
                 windowWidth, resizeVars, filterModalOpen, filterCol,
                 filterType, filterValue, activeFilters>>
  /\ RenderSame

\* the onClick of the Add Filter button (disabled while a field is empty)
handleAddFilter ==
  /\ mounted /\ filterModalOpen
  /\ ~(filterCol = "" \/ filterType = "" \/ filterValue = << >>)
  /\ LET added == Append(activeFilters,
                         [col     |-> filterCol,
                          type    |-> filterType,
                          value   |-> trim(filterValue),
                          value2  |-> trim(filterValue2),
                          colType |-> guessColumnType(filterCol, data)])
     IN  /\ activeFilters' = added
         /\ Render(data, debouncedValue, added, orderBy, order)
  /\ filterCol' = "" /\ filterType' = ""
  /\ filterValue' = << >> /\ filterValue2' = << >>
  /\ lastOp' = "handleAddFilter"
  /\ UNCHANGED <<mounted, dataVars, searchVars, sortVars, layoutVars,
                 windowWidth, resizeVars, filterModalOpen>>

\* a removal that drops the first filter whatever the index
RemoveAt_First(fs, idx) == Tail(fs)

\* prev.filter((_, i) => i !== idx)
RemoveAt(fs, idx) == SubSeq(fs, 1, idx) \o SubSeq(fs, idx + 2, Len(fs))

\* onDelete of the chip of the filter at index idx (0-based)
handleRemoveFilter(idx) ==
  /\ mounted
  /\ idx \in 0..(Len(activeFilters) - 1)
  /\ activeFilters' = RemoveAt(activeFilters, idx)
  /\ Render(data, debouncedValue, RemoveAt(activeFilters, idx), orderBy, order)
  /\ lastOp' = "handleRemoveFilter"
  /\ UNCHANGED <<mounted, dataVars, searchVars, sortVars, layoutVars,
                 windowWidth, resizeVars, modalVars>>

----------------------------------------------------------------------------
(* CSV export and the parser of the load effect.  A text is a sequence of   *)
(* characters; a column name is kept as one symbol of the text, standing    *)
(* for its letters, which are ordinary characters.                          *)

\* parts[1] sep parts[2] sep ... : Array.prototype.join
RECURSIVE Join(_, _)
Join(parts, sep) ==
  IF parts = << >> THEN << >>
  ELSE IF Len(parts) = 1 THEN parts[1]
  ELSE parts[1] \o sep \o Join(Tail(parts), sep)

\* JSON.stringify of a string: the characters between two double quotes,
\* a double quote, a backslash and a line break written as backslash
\* escapes
JSONstringify(str) ==
  LET Escape(c) ==
        CASE c = "\"" -> <<"\\", "\"">>
          [] c = "\\" -> <<"\\", "\\">>
          [] c = "\n" -> <<"\\", "n">>
          [] OTHER    -> <<c>>
  IN  <<"\"">> \o Join([i \in 1..Len(str) |-> Escape(str[i])], << >>)
               \o <<"\"">>

\* the text exportToCsv hands to the Blob
exportToCsv(rows, hs) ==
  Join(<<Join([j \in 1..Len(hs) |-> <<hs[j]>>], <<",">>)>>
         \o [i \in 1..Len(rows) |->
               Join([j \in 1..Len(hs) |->
                       JSONstringify(IF hs[j] \in DOMAIN rows[i]
                                       THEN rows[i][hs[j]] ELSE << >>)],
                    <<",">>)],
       <<"\n">>)

\* Papa.parse, quoted field opened before position j: the position of the
\* quote that closes it, 0 if there is none.  A quote followed by a quote
\* is an escaped quote; a quote followed by anything but a delimiter, a
\* line break or the end of the text is reported and the search goes on.
RECURSIVE ClosingQuote(_, _)
ClosingQuote(t, j) ==
  IF j > Len(t) THEN 0
  ELSE IF t[j] # "\"" THEN ClosingQuote(t, j + 1)
  ELSE IF j = Len(t) THEN j
  ELSE IF t[j + 1] = "\"" THEN ClosingQuote(t, j + 2)
  ELSE IF t[j + 1] \in {",", "\n"} THEN j
  ELSE ClosingQuote(t, j + 1)

\* the content of a quoted field: every pair of quotes is one quote
RECURSIVE Unquote(_)
Unquote(str) ==
  IF str = << >> THEN << >>
  ELSE IF Len(str) >= 2 /\ str[1] = "\"" /\ str[2] = "\""
    THEN <<"\"">> \o Unquote(SubSeq(str, 3, Len(str)))
  ELSE <<str[1]>> \o Unquote(Tail(str))

\* the end of the unquoted field that starts at position i
RECURSIVE FieldEnd(_, _)
FieldEnd(t, i) ==
  IF i > Len(t) \/ t[i] \in {",", "\n"} THEN i ELSE FieldEnd(t, i + 1)

\* the rows of fields of the text from position i on, row being the fields
\* read so far on the current line
RECURSIVE ParseRows(_, _, _, _)
ParseRows(t, i, row, rows) ==
  LET Next(value, e) ==
        IF e > Len(t) THEN Append(rows, Append(row, value))
        ELSE IF t[e] = "," THEN ParseRows(t, e + 1, Append(row, value), rows)
        ELSE IF e = Len(t) THEN Append(rows, Append(row, value))
        ELSE ParseRows(t, e + 1, << >>, Append(rows, Append(row, value)))
      Quoted(q) ==
        IF q = 0 THEN Append(rows, Append(row, SubSeq(t, i + 1, Len(t))))
        ELSE Next(Unquote(SubSeq(t, i + 1, q - 1)), q + 1)
  IN  IF i > Len(t) THEN Append(rows, Append(row, << >>))
      ELSE IF t[i] = "\"" THEN Quoted(ClosingQuote(t, i + 1))
      ELSE Next(SubSeq(t, i, FieldEnd(t, i) - 1), FieldEnd(t, i))

\* Papa.parse(text, {header: true, skipEmptyLines: true}): the first line
\* that is not empty names the fields, every other one is a row keyed by
\* them; a line with fewer fields leaves the last keys absent, and
\* skipEmptyLines: true drops a line that is one empty field
PapaParse(t) ==
  LET Keyed(lines) ==
        LET Key(k) == IF Len(lines[1][k]) = 1 THEN lines[1][k][1]
                                               ELSE "<field>"
            Filled(n) == {k \in 1..Len(lines[1]) : k <= Len(lines[n + 1])}
        IN  [fields |-> [k \in 1..Len(lines[1]) |-> Key(k)],
             rows   |-> [n \in 1..(Len(lines) - 1) |->
                           [h \in {Key(k) : k \in Filled(n)} |->
                              lines[n + 1][CHOOSE k \in Filled(n) :
                                             /\ Key(k) = h
                                             /\ \A m \in Filled(n) :
                                                  Key(m) = h => m <= k]]]]
      Kept(lines) ==
        IF lines = << >> THEN [fields |-> << >>, rows |-> << >>]
                         ELSE Keyed(lines)
  IN  Kept(SelectSeq(IF t = << >> THEN << >> ELSE ParseRows(t, 1, << >>, << >>),
                     LAMBDA fields : ~(Len(fields) = 1 /\ fields[1] = << >>)))

----------------------------------------------------------------------------
(* Specifications                                                          *)

Load == (\E d \in Datasets : LoadComplete(d)) \/ LoadFail

TypeSearch == \E v \in SearchInputs : handleSearchChange(v)

ClickHeader == \E c \in Range(headers) : HeaderClick(c)

EditModal ==
  \/ handleOpenFilter
  \/ handleCloseFilter
  \/ \E c \in Range(headers) : SelectFilterCol(c)
  \/ \E t \in {"equals", "gt", "lt", "range", "contains", "before", "after"} :
       SelectFilterType(t)
  \/ \E v \in FilterTextInputs \cup FilterNumberInputs \cup FilterDateInputs
                \cup {<< >>} : EditFilterValue(v)

\* the second value input, which the modal shows for the type "range"
EditRangeEnd ==
  \E v \in FilterNumberInputs \cup FilterDateInputs \cup {<< >>} :
    EditFilterValue2(v)

AddFilter == Len(activeFilters) < MaxFilters /\ handleAddFilter

RemoveFilter == \E i \in 0..(Len(activeFilters) - 1) : handleRemoveFilter(i)

EditColumns ==
  \/ \E c \in Range(headers) : handleToggleColumn(c)
  \/ SelectAll
  \/ DeselectAll
  \/ \E from \in 0..(Len(columnOrder) - 1), to \in 0..(Len(columnOrder) - 1) :
       onDragEnd(from, to)

ResizeWindow == \E w \in WindowWidths : WindowResize(w)

MouseDown ==
  /\ Len(listeners) < MaxSessions
  /\ \E c \in Range(headers), x \in PointerXs : handleResizeStart(c, x)

MouseMove ==
  \E x \in PointerXs :
    /\ \A c \in DOMAIN RunMoves(listeners, customColumnWidths, x) :
         RunMoves(listeners, customColumnWidths, x)[c] <= MaxWidth
    /\ handleMove(x)

MouseUp == handleUp

\* the whole component
Next ==
  \/ Load \/ TypeSearch \/ TimerFire \/ ClickHeader
  \/ EditModal \/ EditRangeEnd \/ AddFilter \/ RemoveFilter
  \/ EditColumns \/ ResizeWindow
  \/ MouseDown \/ MouseMove \/ MouseUp
  \/ Unmount

Spec == Init /\ [][Next]_vars

\* search, debounce and sort over every dataset
NextSearch ==
  \/ Load \/ TypeSearch \/ TimerFire \/ ClickHeader

SpecSearch == Init /\ [][NextSearch]_vars

\* a pending timeout of useDebounce fires once its delay has elapsed: weak
\* fairness of the timeout callback, stated on the variables of the hook
SpecSearchFair ==
  SpecSearch
    /\ WF_<<debouncedValue, timers>>(\E value \in SearchInputs :
                                       mounted /\ TimeoutCallback(value))

\* the view derivation over the two-column dataset: search, debounce,
\* filters, sort.  Both columns of the dataset are strings, so the modal
\* never offers the type "range" and its second value input is never shown.
NextView ==
  \/ LoadComplete(Sites) \/ LoadFail
  \/ TypeSearch \/ TimerFire \/ ClickHeader
  \/ EditModal \/ AddFilter \/ RemoveFilter

SpecView == Init /\ [][NextView]_vars

\* the resize interaction: resize sessions, header clicks, teardown
NextResize ==
  \/ LoadComplete(Founders)
  \/ ClickHeader
  \/ MouseDown \/ MouseMove \/ MouseUp
  \/ Unmount

SpecResize == Init /\ [][NextResize]_vars

\* single predicates over the tables of FilterDatasets, entered through the
\* filter modal
LoadFilter == \E d \in FilterDatasets : LoadComplete(d)

AddPredicate == Len(activeFilters) < MaxPredicates /\ handleAddFilter

NextFilter ==
  \/ LoadFilter
  \/ EditModal \/ EditRangeEnd \/ AddPredicate \/ RemoveFilter

SpecFilter == Init /\ [][NextFilter]_vars

\* the sort stage over the tables of SortDatasets
LoadSort == \E d \in SortDatasets : LoadComplete(d)

NextSort == LoadSort \/ ClickHeader

SpecSort == Init /\ [][NextSort]_vars

\* the search stage over the three-column directory, with the column picker
TypeFind == \E v \in FindInputs : handleSearchChange(v)

FindTimerFire == \E value \in FindInputs : TimerCallback(value)

ToggleColumn == \E c \in Range(headers) : handleToggleColumn(c)

NextFind ==
  \/ LoadComplete(Directory) \/ TypeFind \/ FindTimerFire \/ ToggleColumn

SpecFind == Init /\ [][NextFind]_vars

\* several predicates at a time on the table of text columns
NextConjoin ==
  \/ LoadComplete(Links) \/ EditModal \/ AddFilter \/ RemoveFilter

SpecConjoin == Init /\ [][NextConjoin]_vars

\* the layout of five columns: window resizes and one drag at a time
LayoutWindowResize == \E w \in LayoutWindowWidths : WindowResize(w)

GrabHandle ==
  /\ listeners = << >>
  /\ \E c \in LayoutHandles \cap Range(headers), x \in PointerXs :
       handleResizeStart(c, x)

NextLayout ==
  \/ LoadComplete(Wide) \/ LayoutWindowResize
  \/ GrabHandle \/ MouseMove \/ MouseUp

SpecLayout == Init /\ [][NextLayout]_vars

\* the outcomes of the load effect: a well-formed text, a malformed text, a
\* rejected fetch or a response that is not ok
LoadParsed == \E d \in {Companies, Truncated} : LoadComplete(d)

NextLoad ==
  \/ LoadParsed \/ LoadFail \/ TypeSearch \/ TimerFire \/ ClickHeader

SpecLoad == Init /\ [][NextLoad]_vars

\* layout changes on a filtered and sorted view of the two-column dataset:
\* the predicate "name contains a" entered through the modal, the column
\* picker, and the first drag of the resize handle of the name column
QuickFilter ==
  \/ handleOpenFilter
  \/ SelectFilterCol("name")
  \/ SelectFilterType("contains")
  \/ EditFilterValue(<<"a">>)

GrabOnce ==
  /\ customColumnWidths = << >> /\ listeners = << >>
  /\ \E x \in PointerXs : handleResizeStart("name", x)

NextFrame ==
  \/ LoadComplete(Sites) \/ ClickHeader
  \/ QuickFilter \/ AddPredicate
  \/ EditColumns
  \/ GrabOnce \/ MouseMove \/ MouseUp

SpecFrame == Init /\ [][NextFrame]_vars

\* the export of the view: tables with special characters, the column picker
NextExport ==
  \/ \E d \in ExportDatasets : LoadComplete(d)
  \/ EditColumns

SpecExport == Init /\ [][NextExport]_vars

\* the column picker over every dataset
NextColumns ==
  \/ Load \/ EditColumns

SpecColumns == Init /\ [][NextColumns]_vars

\* the column picker with its search box
NextPicker ==
  \/ LoadComplete(Links)
  \/ \E v \in {<< >>, <<"n">>, <<"t">>, <<"n", "o">>} :
       handleColumnSearchChange(v)
  \/ ColumnSearchTimer
  \/ \E from \in 0..(Len(columnOrder) - 1), to \in 0..(Len(columnOrder) - 1) :
       onDragEnd(from, to)

SpecPicker == Init /\ [][NextPicker]_vars

----------------------------------------------------------------------------
(* Properties                                                              *)

\* the three stages applied to the current state: the row sequences the
\* sort stage may return for the searched and filtered rows
Pipeline ==
  ComputeSortedData(
    ApplyFilters(SearchStage(data, trim(debouncedValue)), activeFilters),
    orderBy, order)

\* C1: with an empty settled search term, no active filter and no sort
\* column, the derived row sequence is the dataset itself, row for row.
C1_IdentityFastPath ==
  (trim(debouncedValue) = << >> /\ activeFilters = << >> /\ orderBy = "")
    => sortedData = data

\* a loaded dataset, shown whole after a search term was settled and cleared
C1_Witness ==
  /\ lastOp = "timerFire"
  /\ Len(data) = 4 /\ sortedData = data
  /\ debouncedValue = << >> /\ orderBy = "" /\ activeFilters = << >>

\* C2: in every reachable state the displayed rows are the search stage, then
\* the filter stage, then the sort stage applied to the dataset with the
\* current settled term, the current active filters and the current sort.
C2_ViewIsPipelineOfCurrentState ==
  sortedData \in Pipeline

\* a filtered, searched and sorted view while a newer keystroke is pending
C2_Witness ==
  /\ trim(debouncedValue) # << >> /\ activeFilters # << >> /\ orderBy # ""
  /\ sortedData # << >> /\ Len(sortedData) < Len(data)
  /\ search # debouncedValue

\* C3: once the component is torn down no session listener is left on
\* document, and no session handler has run since the teardown.
C3_NoListenerAfterTeardown ==
  ~mounted => (listeners = << >> /\ lastOp \notin {"handleMove", "handleUp"})

\* C4: pointer-down on a handle enters Resizing (column, flag, listeners,
\* body styling); pointer-up leaves it: the listeners are gone, the body
\* styling is restored, and in the mounted component the resizing column is
\* cleared and isResizing is false; with no session no step changes a width.
C4_ResizeMachine ==
  /\ [](lastOp = "handleResizeStart" =>
          /\ isResizing /\ resizingColumn # null /\ listeners # << >>
          /\ bodyCursor = "col-resize" /\ bodyUserSelect = "none")
  /\ [](lastOp = "handleUp" =>
          /\ listeners = << >> /\ bodyCursor = "" /\ bodyUserSelect = ""
          /\ (mounted => (resizingColumn = null /\ ~isResizing)))
  /\ [](mounted => (isResizing <=> listeners # << >>))
  /\ [][listeners = << >> => customColumnWidths' = customColumnWidths]_vars

\* back in Idle after a drag that changed a width
C4_Witness ==
  /\ lastOp = "handleUp" /\ mounted
  /\ resizingColumn = null /\ ~isResizing /\ listeners = << >>
  /\ DOMAIN customColumnWidths # {}

\* C5: a pointer-move at x sets the custom width of the resized column to
\* max(width at pointer-down + (x - x at pointer-down), MIN_COL_WIDTH), and
\* every custom width is at least MIN_COL_WIDTH in every state.
C5_WidthFromSessionStart ==
  /\ [][\A x \in PointerXs :
          (mounted /\ handleMove(x)) =>
            /\ resizingColumn \in DOMAIN customColumnWidths'
            /\ customColumnWidths'[resizingColumn]
                 = Max(initialWidth + (x - resizeStartX), MIN_COL_WIDTH)]_vars
  /\ [](\A c \in DOMAIN customColumnWidths :
          customColumnWidths[c] >= MIN_COL_WIDTH)

\* a move that would have gone below the minimum width
C5_Witness ==
  /\ lastOp = "handleMove" /\ mounted /\ listeners # << >>
  /\ resizingColumn \in DOMAIN customColumnWidths
  /\ customColumnWidths[resizingColumn] = MIN_COL_WIDTH
  /\ initialWidth > MIN_COL_WIDTH

\* C6: while a resize session is active, a click on a column header leaves
\* the sort column and the sort direction as they were.
C6_NoSortWhileResizing ==
  [][(listeners # << >> /\ lastOp' = "headerClick")
       => (orderBy' = orderBy /\ order' = order)]_vars

\* a header was clicked during a session
C6_Witness ==
  lastOp = "headerClick" /\ listeners # << >> /\ isResizing

IsPermutation(s, t) ==
  /\ Len(s) = Len(t)
  /\ Range(s) = Range(t)
  /\ \A i, j \in 1..Len(s) : s[i] = s[j] => i = j

NoDuplicates(s) == \A i, j \in 1..Len(s) : s[i] = s[j] => i = j

\* s holds the elements of t that satisfy keep, in the order of t
IsRestriction(s, t, keep) ==
  /\ NoDuplicates(s)
  /\ Range(s) = Range(t) \cap keep
  /\ \A i, j \in 1..Len(s) :
       i < j => \E k, l \in 1..Len(t) : k < l /\ t[k] = s[i] /\ t[l] = s[j]

\* C7: the column order is a permutation of the header, the visible set
\* holds header columns only and none twice, the displayed columns are the
\* visible columns of the column order in that order, and right after load
\* the order is the header and every column is visible.
C7_ColumnLayout ==
  /\ IsPermutation(columnOrder, headers)
  /\ Range(visibleColumns) \subseteq Range(headers)
  /\ NoDuplicates(visibleColumns)
  /\ IsRestriction(displayedColumns, columnOrder, Range(visibleColumns))
  /\ (lastOp = "loadComplete" =>
        (columnOrder = headers /\ visibleColumns = headers))

\* a reordered layout with a hidden column and a column shown again
C7_Witness ==
  /\ lastOp = "onDragEnd" /\ columnOrder # headers
  /\ displayedColumns # << >> /\ Len(displayedColumns) < Len(columnOrder)
  /\ displayedColumns # visibleColumns

\* C8: the settled value changes only to the value the input holds and has
\* held since the only pending timer was armed: an input change leaves one
\* pending timer, the one of the new value.
C8_SettlesOnlyHeldValue ==
  /\ [][debouncedValue' # debouncedValue =>
          (debouncedValue' = search /\ search' = search)]_vars
  /\ [](timers \subseteq {search})

\* a pending timer was cancelled by a keystroke and the later value settled
C8_Witness ==
  /\ lastOp = "handleSearchChange/clearTimeout"
  /\ timers = {search} /\ debouncedValue # search /\ debouncedValue # << >>

\* C9: when the timer is allowed to fire, the settled value eventually
\* equals the input value unless the input changes first, and once equal it
\* stays equal until the input changes.
C9_EventuallySettled ==
  /\ \A v \in SearchInputs :
       (search = v) ~> (debouncedValue = v \/ search # v)
  /\ [][(debouncedValue = search /\ search' = search)
          => debouncedValue' = search']_vars

\* the last input has settled and no timer is pending
C9_Witness ==
  lastOp = "timerFire" /\ timers = {} /\ debouncedValue = search
    /\ search # << >>

\* C10: a render runs the filteredData callback only when the settled,
\* trimmed term, the active filters or the dataset changed in that step; a
\* keystroke never runs it.
C10_OneRunPerSettledChange ==
  [][/\ filterRan' => \/ trim(debouncedValue') # trim(debouncedValue)
                      \/ activeFilters' # activeFilters
                      \/ data' # data
     /\ lastOp' \in {"handleSearchChange", "handleSearchChange/clearTimeout"}
          => ~filterRan']_vars

\* a value with trailing white space settled and the pipeline did not rerun
C10_Witness ==
  /\ lastOp = "timerFire" /\ ~filterRan
  /\ debouncedValue = <<"a", " ">> /\ data # << >>

\* the position of row x in the row sequence seq
IndexOf(seq, x) == CHOOSE k \in 1..Len(seq) : seq[k] = x

\* rows a and b hold the same value in column col
CellsEqual(a, b, col) ==
  /\ Has(a, col) <=> Has(b, col)
  /\ Has(a, col) => a[col] = b[col]

\* C11: two rows with equal values in the sort column stand in the sorted
\* sequence in the relative order they have in the filtered input.
C11_SortIsStable ==
  orderBy # "" =>
    \A i, j \in 1..Len(filteredData) :
      (i < j /\ CellsEqual(filteredData[i], filteredData[j], orderBy))
        => IndexOf(sortedData, filteredData[i])
             < IndexOf(sortedData, filteredData[j])

Reverse(seq) == [i \in 1..Len(seq) |-> seq[Len(seq) + 1 - i]]

\* no two rows of the sequence compare equal on column col
NoTies(rows, col) ==
  \A i, j \in 1..Len(rows) :
    i # j => SortCompare(rows[i], rows[j], col, "asc") # 0

\* C12: when no two rows tie on the sort column, the click that turns the
\* ascending sort into the descending sort reverses the displayed sequence.
C12_DescIsReverseOfAsc ==
  [][(/\ orderBy # "" /\ orderBy' = orderBy
      /\ order = "asc" /\ order' = "desc"
      /\ NoTies(filteredData, orderBy))
       => sortedData' = Reverse(sortedData)]_vars

\* C13: a predicate keeps a row that lacks the filtered column exactly when
\* it keeps a row whose cell in that column is the empty string.
C13_AbsentAsEmpty ==
  (Len(activeFilters) = 1 /\ trim(debouncedValue) = << >>) =>
    \A a, b \in Range(data) :
      (/\ ~Has(a, activeFilters[1].col)
       /\ Has(b, activeFilters[1].col) /\ b[activeFilters[1].col] = << >>)
        => (a \in Range(filteredData) <=> b \in Range(filteredData))

\* the numbers that the cells of Counts.n and of Amounts.funding_total stand
\* for, by the name of the row; the row of Counts without a cell has none
CountOf ==
  (<<"a">> :> 1200) @@ (<<"b">> :> 499) @@ (<<"a", "a">> :> 500)
    @@ (<<"a", "b">> :> 2000) @@ (<<"b", "a">> :> 2001) @@ (<<"b", "b">> :> 0)

AmountOf ==
  (<<"a">> :> 1200) @@ (<<"b">> :> 300) @@ (<<"a", "a">> :> 0)
    @@ (<<"a", "b">> :> 500) @@ (<<"b", "a">> :> 2000)
    @@ (<<"b", "b">> :> 2001) @@ (<<"a", "a", "a">> :> 0)
    @@ (<<"a", "a", "b">> :> 0)

\* the number a bound typed into the modal stands for
BoundOf(v) ==
  CASE v = <<"5", "0", "0">> -> 500
    [] v = <<"2", "0", "0", "0">> -> 2000
    [] v = << >> -> 0

\* the rows of the loaded table whose number x satisfies lo <= x <= hi
RowsWithin(numberOf, lo, hi) ==
  {r \in Range(data) :
     r.name \in DOMAIN numberOf /\ lo <= numberOf[r.name]
       /\ numberOf[r.name] <= hi}

\* C14: a range predicate on a number column keeps exactly the rows whose
\* number x satisfies value <= x <= value2, both bounds included.
C14_RangeInclusive ==
  (/\ data \in {Amounts.rows, Counts.rows}
   /\ Len(activeFilters) = 1 /\ trim(debouncedValue) = << >>
   /\ activeFilters[1].type = "range" /\ activeFilters[1].colType = "number")
    => Range(filteredData)
         = RowsWithin(IF activeFilters[1].col = "funding_total"
                        THEN AmountOf ELSE CountOf,
                      BoundOf(activeFilters[1].value),
                      BoundOf(activeFilters[1].value2))

\* the range [500, 2000] on the plain number column keeps 1200 and both
\* bounds
C14_Witness ==
  /\ data = Counts.rows /\ Len(activeFilters) = 1
  /\ activeFilters[1].col = "n" /\ activeFilters[1].type = "range"
  /\ activeFilters[1].value = <<"5", "0", "0">>
  /\ activeFilters[1].value2 = <<"2", "0", "0", "0">>
  /\ Len(filteredData) = 3
  /\ \E i \in 1..3 : filteredData[i].n = <<"5", "0", "0">>
  /\ \E i \in 1..3 : filteredData[i].n = <<"2", "0", "0", "0">>

\* the comparison that a predicate type names, on integers
TypeHolds(type, x, lo, hi) ==
  CASE type = "equals" -> x = lo
    [] type = "gt"     -> x > lo
    [] type = "lt"     -> x < lo
    [] type = "range"  -> lo <= x /\ x <= hi

\* the rows among "$1,200", "$300" and "abc" of a row sequence
ScenarioRows(rows) ==
  SelectSeq(rows, LAMBDA r : r.name \in {<<"a">>, <<"b">>, <<"a", "a">>})

\* C15: on funding_total a row is compared by the number left after every
\* character other than a digit, '.' or '-' is removed, an absent cell or one
\* empty after stripping being 0; of "$1,200", "$300" and "abc" the range
\* [500, 2000] keeps exactly the first.
C15_FundingStripped ==
  (/\ Len(activeFilters) = 1 /\ trim(debouncedValue) = << >>
   /\ activeFilters[1].col = "funding_total"
   /\ activeFilters[1].colType = "number")
    => /\ \A r \in Range(data) :
            r \in Range(filteredData)
              <=> TypeHolds(activeFilters[1].type, AmountOf[r.name],
                            BoundOf(activeFilters[1].value),
                            BoundOf(activeFilters[1].value2))
       /\ (/\ activeFilters[1].type = "range"
           /\ activeFilters[1].value = <<"5", "0", "0">>
           /\ activeFilters[1].value2 = <<"2", "0", "0", "0">>)
            => ScenarioRows(filteredData) = <<data[1]>>

\* the range [500, 2000] is active on funding_total and "$1,200" is the one
\* row of the three that is shown
C15_Witness ==
  /\ data = Amounts.rows /\ Len(activeFilters) = 1
  /\ activeFilters[1].col = "funding_total"
  /\ activeFilters[1].type = "range"
  /\ activeFilters[1].value = <<"5", "0", "0">>
  /\ activeFilters[1].value2 = <<"2", "0", "0", "0">>
  /\ data[1].funding_total = <<"$", "1", ",", "2", "0", "0">>
  /\ ScenarioRows(filteredData) = <<data[1]>>

\* the same letter, whatever the case
SameLetter(c, d) == c = d \/ {c, d} = {"a", "A"} \/ {c, d} = {"b", "B"}

\* t occurs in s, letters compared without regard to case
ContainsFolded(s, t) ==
  \E k \in 0..(Len(s) - Len(t)) : \A i \in 1..Len(t) : SameLetter(s[k + i], t[i])

\* a typed search value without the white space around it
TermOf(v) ==
  CASE v = << >> -> << >>
    [] v = <<" ">> -> << >>
    [] v = <<"B">> -> <<"B">>
    [] v = <<" ", "a", "b">> -> <<"a", "b">>

\* the rows that a term keeps: those whose name or website holds it
RowsFound(rows, term) ==
  SelectSeq(rows, LAMBDA r :
    \/ term = << >>
    \/ "name" \in DOMAIN r /\ ContainsFolded(r.name, term)
    \/ "website" \in DOMAIN r /\ ContainsFolded(r.website, term))

\* C16: with no filter active, the rows shown are those whose name or website
\* contains the trimmed settled term without regard to case, whichever
\* columns are visible; a term of white space alone keeps every row.
C16_SearchNameOrWebsite ==
  activeFilters = << >> => filteredData = RowsFound(data, TermOf(debouncedValue))

\* the padded term has settled with the name column hidden: the two rows
\* with "Ab" and "aB" are kept, the rows with "ab" in the note are not
C16_Witness ==
  /\ data = Directory.rows
  /\ debouncedValue = <<" ", "a", "b">>
  /\ "name" \notin Range(visibleColumns) /\ "note" \in Range(visibleColumns)
  /\ filteredData = <<data[1], data[2]>>

\* the active filters in another order
Reordered(fs, p) == [i \in 1..Len(fs) |-> fs[p[i]]]

\* C17: the rows shown are the rows left by the search stage that match every
\* active filter, in the order of the dataset, and every reordering of the
\* active filters derives the same rows.
C17_FiltersConjoin ==
  activeFilters # << >> =>
    /\ filteredData
         = SelectSeq(SearchStage(data, trim(debouncedValue)),
                     LAMBDA r : \A i \in 1..Len(activeFilters) :
                                  FilterMatches(r, activeFilters[i]))
    /\ \A p \in Permutations(1..Len(activeFilters)) :
         ComputeFilteredData(data, trim(debouncedValue),
                             Reordered(activeFilters, p)) = filteredData

\* two predicates on different columns are active; the first alone keeps
\* three rows, both together keep one
C17_Witness ==
  /\ data = Links.rows /\ Len(activeFilters) = 2
  /\ activeFilters[1].col = "name" /\ activeFilters[1].type = "contains"
  /\ activeFilters[2].col = "website" /\ activeFilters[2].type = "contains"
  /\ Len(SelectSeq(data, LAMBDA r : FilterMatches(r, activeFilters[1]))) = 3
  /\ filteredData = <<data[1]>>

\* the sum of w over a finite set of columns
RECURSIVE WidthSum(_, _)
WidthSum(w, cols) ==
  IF cols = {} THEN 0
  ELSE LET c == CHOOSE x \in cols : TRUE
       IN  w[c] + WidthSum(w, cols \ {c})

Shown == Range(displayedColumns)
Resized == Shown \cap DOMAIN customColumnWidths
Unresized == Shown \ DOMAIN customColumnWidths

\* the width the layout starts from: the custom width or the default
AssignedWidth(c) ==
  IF c \in DOMAIN customColumnWidths THEN customColumnWidths[c]
                                      ELSE DEFAULT_COL_WIDTH

\* the sum of the assigned widths is less than the width available
RoomLeft ==
  WidthSum([c \in Shown |-> AssignedWidth(c)], Shown) < windowWidth - 80

\* the columns of cols share evenly, up to rounding down, what the window
\* leaves beside the custom widths
ShareEvenly(cols) ==
  \E w \in DEFAULT_COL_WIDTH..(windowWidth - 80) :
    /\ \A c \in cols : columnWidths[c] = w
    /\ w * Cardinality(cols)
         <= windowWidth - 80 - WidthSum(customColumnWidths, Resized)
    /\ windowWidth - 80 - WidthSum(customColumnWidths, Resized)
         < (w + 1) * Cardinality(cols)

\* C18: a column with a custom width has exactly that width whatever the
\* window width; when the assigned widths sum to less than the available
\* width, the columns without a custom width, and only they, are widened
\* to one common width.
C18_CustomKeptOthersShare ==
  /\ \A c \in Resized : columnWidths[c] = customColumnWidths[c]
  /\ (RoomLeft /\ Unresized # {}) => ShareEvenly(Unresized)

\* a wide window, one column resized to its minimum: it keeps 80 and the
\* other four are widened to 235 each
C18_Witness ==
  /\ windowWidth = 1100 /\ Cardinality(Shown) = 5
  /\ DOMAIN customColumnWidths = {"name"}
  /\ customColumnWidths["name"] = MIN_COL_WIDTH
  /\ columnWidths["name"] = MIN_COL_WIDTH
  /\ \A c \in Unresized : columnWidths[c] = 235

\* five columns are shown and the window has room for three columns of the
\* default width, not for four
FitsOnlyThree ==
  /\ Cardinality(Shown) = 5
  /\ 3 * DEFAULT_COL_WIDTH <= windowWidth - 80
  /\ windowWidth - 80 < 4 * DEFAULT_COL_WIDTH

\* the columns of cols have one common width and fill, up to rounding down,
\* what the window leaves beside the custom widths
FillEvenly(cols) ==
  \E w \in 0..(windowWidth - 80) :
    /\ \A c \in cols : columnWidths[c] = w
    /\ w * Cardinality(cols)
         <= windowWidth - 80 - WidthSum(customColumnWidths, Resized)
    /\ windowWidth - 80 - WidthSum(customColumnWidths, Resized)
         < (w + 1) * Cardinality(cols)

C20_FailedLoadLeavesEmpty ==
  lastOp \in {"loadFail", "loadComplete/errors"}
    => /\ data = << >> /\ headers = << >>
       /\ visibleColumns = << >> /\ columnOrder = << >>
       /\ ~loading

\* the operations that write the column layout
LayoutOps ==
  {"handleToggleColumn", "selectAll", "deselectAll", "onDragEnd", "handleMove"}

\* C21: toggling a column, select-all, deselect-all, reordering and resizing
\* leave the filtered and the sorted row sequence as they were, also when
\* the column concerned is the sort column or the column of an active filter.
C21_LayoutKeepsRows ==
  [][lastOp' \in LayoutOps
       => (filteredData' = filteredData /\ sortedData' = sortedData)]_vars

\* the sort column and the column of the active filter have just been
\* hidden, and the rows shown are filtered
C21_Witness ==
  /\ lastOp \in {"handleToggleColumn", "deselectAll"}
  /\ orderBy # "" /\ orderBy \notin Range(visibleColumns)
  /\ Len(activeFilters) = 1
  /\ activeFilters[1].col \notin Range(visibleColumns)
  /\ sortedData # << >> /\ Len(sortedData) < Len(data)

\* the rows of the view cut down to the columns shown, an absent cell taken
\* as the empty string
ExportedCells ==
  [i \in 1..Len(sortedData) |->
     [h \in Range(displayedColumns) |->
        IF h \in DOMAIN sortedData[i] THEN sortedData[i][h] ELSE << >>]]

\* C22: whenever the export button is enabled and a column is shown, parsing
\* the exported text with the parser of the load effect gives the shown
\* columns in display order as fields and, row by row, the values of the view
\* for these columns.
C22_ExportRoundTrip ==
  (~loading /\ sortedData # << >> /\ displayedColumns # << >>)
    => /\ PapaParse(exportToCsv(sortedData, displayedColumns)).fields
            = displayedColumns
       /\ PapaParse(exportToCsv(sortedData, displayedColumns)).rows
            = ExportedCells

\* values without special characters do come back
PlainRoundTrip ==
  (/\ ~loading /\ sortedData # << >> /\ Len(displayedColumns) = 2
   /\ \A h \in Range(displayedColumns) :
        sortedData[1][h] \in {<<"a">>, << >>, <<"a", ",", "b">>})
    => /\ PapaParse(exportToCsv(sortedData, displayedColumns)).fields
            = displayedColumns
       /\ PapaParse(exportToCsv(sortedData, displayedColumns)).rows
            = ExportedCells

\* the type of each column of the tables of FilterDatasets: the override for
\* funding_total, else that of the first cell that is not blank
ExpectedType ==
  [name |-> "string", funding_total |-> "number", n |-> "number",
   founded |-> "date", website |-> "string", note |-> "string",
   year |-> "number", since |-> "date", code |-> "string", pad |-> "number",
   rest |-> "string"]

\* C23: the inferred type of a column is number for funding_total whatever
\* its cells, else the type of the first cell that is not blank (number
\* before date, string if neither or if there is no such cell); the modal
\* offers the types of that column type and an added predicate carries it.
C23_TypeInference ==
  /\ \A c \in Range(headers) : guessColumnType(c, data) = ExpectedType[c]
  /\ \A i \in 1..Len(activeFilters) :
       activeFilters[i].colType = ExpectedType[activeFilters[i].col]
  /\ filterType # "" => filterType \in TypeOptions(ExpectedType[filterCol])

\* a predicate on the column whose first two cells are empty and blank has
\* been added with the type of the third cell
C23_Witness ==
  /\ data = Typed.rows /\ Len(activeFilters) = 1
  /\ activeFilters[1].col = "year" /\ activeFilters[1].colType = "number"
  /\ data[1].year = << >> /\ data[2].year = <<" ">>

\* the pairs <<x, y>> of cells of column v with x before y in ascending
\* order: as numbers when both are numbers (the empty cell being 0), as
\* strings otherwise (digits before letters, "10" before "1a" before "9")
BeforePairs ==
  {<<<<"-", "1">>, << >>>>, <<<<"-", "1">>, <<"9">>>>,
   <<<<"-", "1">>, <<"1", "0">>>>, <<<<"-", "1">>, <<"a">>>>,
   <<<< >>, <<"9">>>>, <<<< >>, <<"1", "0">>>>, <<<< >>, <<"a">>>>,
   <<<<"9">>, <<"1", "0">>>>, <<<<"9">>, <<"a">>>>, <<<<"1", "0">>, <<"a">>>>,
   <<<<"1", "0">>, <<"1", "a">>>>, <<<<"1", "a">>, <<"9">>>>}

\* the cell of column v of a row, a missing cell taken as empty
CellV(row) == IF "v" \in DOMAIN row THEN row.v ELSE << >>

\* "9", "10" and "1a" are all in column v: 9 before 10 as numbers, "10"
\* before "1a" and "1a" before "9" as strings
HasCycle ==
  {<<"9">>, <<"1", "0">>, <<"1", "a">>}
    \subseteq {CellV(data[i]) : i \in 1..Len(data)}

\* C24: in the sorted rows no row stands before a row that the pairwise rule
\* puts before it: numbers compared as numbers when both cells are numbers
\* (a missing or empty cell being 0), as strings otherwise, whatever the
\* inferred type of the column.  Stated for the tables on which the pairwise
\* rule orders the cells without a cycle.
C24_PairwiseRule ==
  (orderBy = "v" /\ ~HasCycle) =>
    \A i, j \in 1..Len(sortedData) :
      i < j => IF order = "asc"
                 THEN <<CellV(sortedData[j]), CellV(sortedData[i])>>
                        \notin BeforePairs
                 ELSE <<CellV(sortedData[i]), CellV(sortedData[j])>>
                        \notin BeforePairs

\* the column that is inferred to be a string column is sorted ascending:
\* -1, the empty and the missing cell, 9, 10, and the word last
C24_Witness ==
  /\ orderBy = "v" /\ order = "asc" /\ Len(sortedData) = 6
  /\ guessColumnType("v", data) = "string"
  /\ [i \in 1..6 |-> sortedData[i].id]
       = << <<"5">>, <<"3">>, <<"6">>, <<"4">>, <<"2">>, <<"1">> >>

\* fs without its element at position i (from 1)
Without(fs, i) ==
  [k \in 1..(Len(fs) - 1) |-> IF k < i THEN fs[k] ELSE fs[k + 1]]

\* C25: the active filters change only by Add Filter, which appends one
\* predicate made of the fields of the modal and of the column type inferred
\* at that moment, and by the removal of a chip, which deletes the predicate
\* at one index; the other predicates keep their fields and their order;
\* and the chip at index idx removes the predicate at that index.
C25_FiltersChangeByAddAndRemove ==
  /\ [](\A idx \in 0..(Len(activeFilters) - 1) :
          RemoveAt(activeFilters, idx) = Without(activeFilters, idx + 1))
  /\ [][activeFilters' # activeFilters =>
       \/ /\ lastOp' = "handleAddFilter"
          /\ activeFilters'
               = Append(activeFilters,
                        [col |-> filterCol, type |-> filterType,
                         value |-> filterValue, value2 |-> filterValue2,
                         colType |-> guessColumnType(filterCol, data)])
       \/ /\ lastOp' = "handleRemoveFilter"
          /\ \E i \in 1..Len(activeFilters) :
               activeFilters' = Without(activeFilters, i)]_vars

\* one of two active predicates has been removed, the other one is left
C25_Witness ==
  /\ lastOp = "handleRemoveFilter" /\ Len(activeFilters) = 1

\* C26: for any three rows a, b, c of the sorted view, if the comparator
\* does not put a after b nor b after c, it does not put a after c.
C26_ComparatorTransitive ==
  orderBy # "" =>
    \A i, j, k \in 1..Len(filteredData) :
      (/\ SortCompare(filteredData[i], filteredData[j], orderBy, order) <= 0
       /\ SortCompare(filteredData[j], filteredData[k], orderBy, order) <= 0)
        => SortCompare(filteredData[i], filteredData[k], orderBy, order) <= 0

\* the column order without the column col
OrderWithout(ord, col) == SelectSeq(ord, LAMBDA c : c # col)

\* C27: a drop in the column picker moves the dragged column, the one the
\* picker shows at the source index, and leaves the other columns in their
\* order relative to each other, also when the column search box narrows
\* the list the picker shows.
C27_DraggedColumnMoves ==
  [][\A from \in 0..(Len(filteredColumns) - 1),
        to \in 0..(Len(filteredColumns) - 1) :
       (lastOp' = "onDragEnd" /\ columnOrder' = Reorder(columnOrder, from, to))
         => OrderWithout(columnOrder', filteredColumns[from + 1])
              = OrderWithout(columnOrder, filteredColumns[from + 1])]_vars

\* the same with every column listed: the search box does not narrow
C27_DraggedColumnMovesUnnarrowed ==
  [][\A from \in 0..(Len(filteredColumns) - 1),
        to \in 0..(Len(filteredColumns) - 1) :
       (/\ lastOp' = "onDragEnd"
        /\ filteredColumns = columnOrder
        /\ columnOrder' = Reorder(columnOrder, from, to))
         => OrderWithout(columnOrder', filteredColumns[from + 1])
              = OrderWithout(columnOrder, filteredColumns[from + 1])]_vars

\* the columns whose custom width differs between widths and after
WidthsChanged(widths, after) ==
  {c \in DOMAIN after : c \notin DOMAIN widths \/ after[c] # widths[c]}

\* C28: at most one resize session is active at any time: document holds at
\* most one pair of move/up listeners, and one mousemove changes the custom
\* width of at most one column, also when a second mousedown on a resize
\* handle arrives before the mouseup of the first.
C28_OneResizeSession ==
  /\ [](Len(listeners) <= 1)
  /\ [][lastOp' = "handleMove" =>
         Cardinality(WidthsChanged(customColumnWidths, customColumnWidths'))
           <= 1]_vars

\* C29: after any sequence of edits of the filter modal and of Add Filter
\* clicks, every predicate of activeFilters has a non-empty value, and every
\* predicate of the type "range" has a non-empty value2 as well.
C29_PredicatesComplete ==
  \A i \in 1..Len(activeFilters) :
    /\ activeFilters[i].value # << >>
    /\ activeFilters[i].type = "range" => activeFilters[i].value2 # << >>

\* the other direction
Flipped(dir) == IF dir = "asc" THEN "desc" ELSE "asc"

\* C30: a header click while no resize is in progress on a column that is
\* not the sort column sets the sort to that column, ascending, whatever
\* the direction was; a click on the sort column flips the direction and
\* keeps the column; once a header click has set a sort column, no
\* operation returns the sort to empty.
C30_HeaderClickSetsSort ==
  /\ [](\A c \in Range(displayedColumns) :
          handleSort(c) = IF c # orderBy THEN <<c, "asc">>
                                         ELSE <<orderBy, Flipped(order)>>)
  /\ [][lastOp' = "headerClick" /\ ~isResizing =>
         \/ /\ orderBy' \in Range(displayedColumns) \ {orderBy}
            /\ order' = "asc"
         \/ /\ orderBy' = orderBy /\ orderBy \in Range(displayedColumns)
            /\ order' = Flipped(order)]_vars
  /\ [][orderBy # "" => orderBy' # ""]_vars

\* a second click on the sort column has turned the sort descending, and
\* another column is shown to click on
C30_Witness ==
  /\ lastOp = "headerClick" /\ ~isResizing
  /\ orderBy # "" /\ order = "desc"
  /\ Range(displayedColumns) \ {orderBy} # {}

============================================================================
